---- MODULE Spec2Model ----
(***************************************************************************)
(* Model of src/shred.rs of cosmic-files: the Shreddable trait with its    *)
(* two implementations (PathBuf and TrashItem) and shred_by_path, running  *)
(* over a small filesystem with regular files, directories and symbolic    *)
(* links.  Every filesystem call of the code is one step of a call.        *)
(***************************************************************************)
EXTENDS Integers, Sequences, FiniteSets, TLC

(***************************************************************************)
(* Bounds of the model                                                     *)
(***************************************************************************)
\* the largest file has MaxChunks whole buffers and one byte more
MaxChunks == 1
\* the injected I/O failure hits one of the first MaxFault fallible calls
MaxFault == 20

(***************************************************************************)
(* Program constants                                                       *)
(***************************************************************************)
buffer_size == 4096

Calls == {1, 2}

(***************************************************************************)
(* File contents: the bytes of a file as a run-length list, each run       *)
(* [n |-> count, b |-> byte value]; adjacent runs differ in b.             *)
(***************************************************************************)
RECURSIVE DataLen(_)
DataLen(d) == IF d = <<>> THEN 0 ELSE Head(d).n + DataLen(Tail(d))

\* the first k bytes of d
RECURSIVE Take(_, _)
Take(d, k) ==
    IF k <= 0 \/ d = <<>> THEN <<>>
    ELSE IF Head(d).n <= k THEN <<Head(d)>> \o Take(Tail(d), k - Head(d).n)
    ELSE <<[n |-> k, b |-> Head(d).b]>>

\* d without its first k bytes
RECURSIVE Drop(_, _)
Drop(d, k) ==
    IF d = <<>> THEN <<>>
    ELSE IF k <= 0 THEN d
    ELSE IF Head(d).n <= k THEN Drop(Tail(d), k - Head(d).n)
    ELSE <<[n |-> Head(d).n - k, b |-> Head(d).b]>> \o Tail(d)

\* merge adjacent runs of the same byte, drop empty runs
RECURSIVE Norm(_)
Norm(d) ==
    IF d = <<>> THEN <<>>
    ELSE IF Head(d).n = 0 THEN Norm(Tail(d))
    ELSE IF Len(d) = 1 THEN d
    ELSE IF d[2].n = 0 THEN Norm(<<Head(d)>> \o Tail(Tail(d)))
    ELSE IF d[2].b = Head(d).b
         THEN Norm(<<[n |-> Head(d).n + d[2].n, b |-> Head(d).b]>> \o Tail(Tail(d)))
    ELSE <<Head(d)>> \o Norm(Tail(d))

\* a run of n bytes of value b
Bytes(n, b) == IF n = 0 THEN <<>> ELSE <<[n |-> n, b |-> b]>>

\* the zero-filled buffer of line 112
zero_buffer == Bytes(buffer_size, 0)

\* write(2) of the first k bytes of buf at offset off: bytes in the range are
\* replaced, bytes past the old end of file extend the file
WriteAt(d, off, buf, k) ==
    Norm(Take(d, off) \o Bytes(off - DataLen(Take(d, off)), 0)
         \o Take(buf, k) \o Drop(d, off + k))

\* every byte of d is zero
AllZero(d) == \A i \in DOMAIN d : d[i].b = 0

(***************************************************************************)
(* Paths (std::path::Path): a path is absolute or relative and has a list  *)
(* of components; a component (file name) is a list of characters groups,  *)
(* "." being the dot character.  <<".", ".">> is the parent component.     *)
(***************************************************************************)
DotDot == <<".", ".">>

Abs(comps) == [abs |-> TRUE, comps |-> comps]
Rel(comps) == [abs |-> FALSE, comps |-> comps]

None == [some |-> FALSE]
Some(v) == [some |-> TRUE, v |-> v]

Front(s) == SubSeq(s, 1, Len(s) - 1)
Last(s) == s[Len(s)]

\* Path::parent: None for the root and for the empty path
parent(p) ==
    IF p.comps = <<>> THEN None
    ELSE Some([abs |-> p.abs, comps |-> Front(p.comps)])

\* Path::file_name: the last component unless it is ".."
file_name(p) ==
    IF p.comps = <<>> \/ Last(p.comps) = DotDot THEN None
    ELSE Some(Last(p.comps))

\* the position of the last dot of a file name, 0 when it has none
RECURSIVE LastDot(_)
LastDot(nm) ==
    IF nm = <<>> THEN 0
    ELSE IF Last(nm) = "." THEN Len(nm)
    ELSE LastDot(Front(nm))

\* Path::file_prefix: the file name up to its first dot that is not a leading
\* one, the whole name when it has none
file_prefix(p) ==
    LET f == file_name(p) IN
    IF ~f.some THEN None
    ELSE IF \A k \in 2..Len(f.v) : f.v[k] # "." THEN f
    ELSE Some(SubSeq(f.v, 1,
                     (CHOOSE k \in 2..Len(f.v) :
                         f.v[k] = "." /\ \A m \in 2..(k - 1) : f.v[m] # ".") - 1))

\* Path::file_stem: the file name up to its last dot; the whole name when it
\* has no dot or only a leading one
file_stem(p) ==
    LET f == file_name(p) IN
    IF ~f.some THEN None
    ELSE IF LastDot(f.v) <= 1 THEN f
    ELSE Some(SubSeq(f.v, 1, LastDot(f.v) - 1))

\* Path::join of one relative component
join(p, nm) == [p EXCEPT !.comps = Append(@, nm)]

(***************************************************************************)
(* The filesystem: a function from canonical absolute paths (lists of file *)
(* names from the root) to nodes.                                          *)
(***************************************************************************)
NoNode == [kind |-> "none", data |-> <<>>, to |-> <<>>]
Dir == [kind |-> "dir", data |-> <<>>, to |-> <<>>]
File(d) == [kind |-> "file", data |-> d, to |-> <<>>]
Link(t) == [kind |-> "link", data |-> <<>>, to |-> t]

\* the result of looking up a path with a missing or non-directory ancestor
NoEnt == << <<"?">> >>

KindOf(f, q) == IF q \in DOMAIN f THEN f[q].kind ELSE "none"

\* q is at or under the directory c
Under(c, q) == Len(q) >= Len(c) /\ SubSeq(q, 1, Len(c)) = c

\* path lookup by the kernel from the canonical directory cur; a symbolic link
\* is followed when more components come after it, and in last place when
\* follow is set
RECURSIVE Lookup(_, _, _, _)
Lookup(f, cur, comps, follow) ==
    IF comps = <<>> THEN cur
    ELSE IF KindOf(f, cur) # "dir" THEN NoEnt
    ELSE IF Head(comps) = DotDot
         THEN Lookup(f, IF cur = <<>> THEN cur ELSE Front(cur), Tail(comps), follow)
    ELSE LET nxt == Append(cur, Head(comps)) IN
         IF KindOf(f, nxt) = "link" /\ (Tail(comps) # <<>> \/ follow)
         THEN Lookup(f, f[nxt].to, Tail(comps), follow)
         ELSE Lookup(f, nxt, Tail(comps), follow)

\* the working directory of the process, against which relative paths resolve
Cwd == << <<"T">> >>

\* the canonical path a path resolves to; the empty path resolves to nothing
Canon(f, p, follow) ==
    IF ~p.abs /\ p.comps = <<>> THEN NoEnt
    ELSE Lookup(f, IF p.abs THEN <<>> ELSE Cwd, p.comps, follow)

\* is_file answering as exists does
is_file_as_exists(f, p) == KindOf(f, Canon(f, p, TRUE)) # "none"

\* Path::is_file, Path::is_dir, Path::exists: stat of the path, following links
is_file(f, p) == KindOf(f, Canon(f, p, TRUE)) = "file"
is_dir(f, p) == KindOf(f, Canon(f, p, TRUE)) = "dir"
exists(f, p) == KindOf(f, Canon(f, p, TRUE)) # "none"

\* the io::Error texts that OperationError::from_str carries
EIO == "Input/output error (os error 5)"
ENOENT == "No such file or directory (os error 2)"
EISDIR == "Is a directory (os error 21)"
ENOTDIR == "Not a directory (os error 20)"

\* OpenOptions::open for writing without create: "Ok" or the error
OpenRes(f, p) ==
    LET k == KindOf(f, Canon(f, p, TRUE)) IN
    IF k = "file" THEN "Ok" ELSE IF k = "dir" THEN EISDIR ELSE ENOENT

\* std::fs::remove_file: unlinks a file or a symbolic link (the link itself)
RemoveFileRes(f, p) ==
    LET k == KindOf(f, Canon(f, p, FALSE)) IN
    IF k \in {"file", "link"} THEN "Ok" ELSE IF k = "dir" THEN EISDIR ELSE ENOENT
AfterRemoveFile(f, p) == [f EXCEPT ![Canon(f, p, FALSE)] = NoNode]

\* std::fs::remove_dir_all: removes a directory with everything under it; of a
\* symbolic link it removes the link only
RemoveDirAllRes(f, p) ==
    LET k == KindOf(f, Canon(f, p, FALSE)) IN
    IF k \in {"dir", "link"} THEN "Ok" ELSE IF k = "file" THEN ENOTDIR ELSE ENOENT
AfterRemoveDirAll(f, p) ==
    LET c == Canon(f, p, FALSE) IN
    IF KindOf(f, c) = "link" THEN [f EXCEPT ![c] = NoNode]
    ELSE [q \in DOMAIN f |-> IF Under(c, q) THEN NoNode ELSE f[q]]

\* the canonical paths the model's filesystems are made of, in the order in
\* which a directory lists its entries
nT == <<"T">>
nO == <<"O">>
nInfo == <<"info">>
nFiles == <<"files">>
nRecN == <<"n", ".", "e">>
nRecM == <<"m", ".", "e">>
nRecNX == <<"n", ".", "x", ".", "e">>
nN == <<"n">>
nM == <<"m">>
nNX == <<"n", ".", "x">>
PathSeq ==
    << <<>>,
       <<nT>>, <<nT, nInfo>>, <<nT, nInfo, nRecN>>, <<nT, nInfo, nRecM>>,
       <<nT, nInfo, nRecNX>>,
       <<nT, nFiles>>,
       <<nT, nFiles, nN>>, <<nT, nFiles, nN, <<"f">>>>,
       <<nT, nFiles, nN, <<"d">>>>, <<nT, nFiles, nN, <<"d">>, <<"g">>>>,
       <<nT, nFiles, nN, <<"l">>>>,
       <<nT, nFiles, nM>>, <<nT, nFiles, nNX>>,
       <<nO>>, <<nO, <<"x">>>> >>
Paths == {PathSeq[i] : i \in DOMAIN PathSeq}

\* fs::read_dir as WalkDir uses it: the entries of directory p, each named by
\* p joined with the entry's file name
read_dir(f, p) ==
    LET c == Canon(f, p, TRUE)
        ents == SelectSeq(PathSeq, LAMBDA q : /\ Len(q) = Len(c) + 1
                                                /\ Front(q) = c
                                                /\ KindOf(f, q) # "none")
    IN [i \in DOMAIN ents |-> join(p, Last(ents[i]))]

(***************************************************************************)
(* State                                                                   *)
(***************************************************************************)
VARIABLES
    fs,             \* the filesystem
    target,         \* per call: the Destroy-Target, [kind, path]
    fault,          \* per call: which of its fallible calls fails (0: none)
    partial,        \* per call: bytes a failing write_all wrote before failing
    pc,             \* per call: the next step
    pre,            \* per call: the filesystem when the call started
    full_file,      \* TrashItem::shred: full_file
    new_paths_it,   \* TrashItem::shred: the entries WalkDir has still to yield
    self,           \* PathBuf::shred: self (path of shred_by_path)
    ret,            \* PathBuf::shred: where it was called from
    file,           \* shred_by_path: the open file (its canonical path)
    file_size,      \* shred_by_path: file_size
    bytes_written,  \* shred_by_path: bytes_written
    shred_res,      \* TrashItem::shred: shred_res
    result,         \* per call: what shred returned
    log,            \* per call: the filesystem calls issued so far
    phase,          \* "seq": calls run one at a time; "conc": they interleave
    fs0,            \* the filesystem before any call
    seq,            \* the results and filesystem of the run in phase "seq"
    overlapped      \* a call has started while another was running

vars == <<fs, target, fault, partial, pc, pre, full_file, new_paths_it, self, ret,
          file, file_size, bytes_written, shred_res, result, log, phase, fs0, seq,
          overlapped>>

input == <<target, fault, partial, phase, fs0, seq>>
tlocals == <<full_file, new_paths_it>>
slocals == <<file, file_size, bytes_written>>

Active(c) == pc[c] \notin {"idle", "done"}

(***************************************************************************)
(* The log and the injected failure                                        *)
(***************************************************************************)
\* the calls that return io::Result; the stat calls is_file, is_dir and exists
\* and the first entry of the walk do not
Fallible == {"open", "metadata", "write_all", "flush", "sync_all", "remove_file",
             "next", "remove_dir_all"}

NOps(c) == Cardinality({i \in DOMAIN log[c] : log[c][i].op \in Fallible})

\* the call that c is about to issue is the one that fails
Faulty(c) == NOps(c) + 1 = fault[c]

\* fn: the function issuing the call; p: the path it is about; n: the length
\* metadata returned, or the number of bytes write_all wrote
Logged(c, fn, op, p, ok, n) ==
    log' = [log EXCEPT
               ![c] = Append(@, [fn |-> fn, op |-> op, path |-> p, ok |-> ok, n |-> n])]

\* what a fallible call returns: the injected failure, or else its own result
Io(c, res) == IF Faulty(c) THEN EIO ELSE res

(***************************************************************************)
(* Control flow                                                            *)
(***************************************************************************)
Goto(c, l) ==
    /\ pc' = [pc EXCEPT ![c] = l]
    /\ UNCHANGED <<result, shred_res>>

\* TrashItem::shred returns res
Finish(c, res) ==
    /\ pc' = [pc EXCEPT ![c] = "done"]
    /\ result' = [result EXCEPT ![c] = res]
    /\ UNCHANGED shred_res

\* lines 58-60 without the `?`: the loop goes on after a failed entry
ReturnBestEffort(c, res) ==
    CASE ret[c] = "top" -> Finish(c, res)
      [] ret[c] = "loop" -> Goto(c, "t_next")
      [] ret[c] = "else" -> /\ pc' = [pc EXCEPT ![c] = "t_remove_info"]
                            /\ shred_res' = [shred_res EXCEPT ![c] = res]
                            /\ UNCHANGED result

\* PathBuf::shred returns res to its caller: the caller of the trait method
\* (line 10), the loop body of lines 58-60 or line 73
Return(c, res) ==
    CASE ret[c] = "top" -> Finish(c, res)
      [] ret[c] = "loop" -> IF res = "Ok" THEN Goto(c, "t_next") ELSE Finish(c, res)
      [] ret[c] = "else" -> /\ pc' = [pc EXCEPT ![c] = "t_remove_info"]
                            /\ shred_res' = [shred_res EXCEPT ![c] = res]
                            /\ UNCHANGED result

(***************************************************************************)
(* Shreddable::shred: the call starts                                      *)
(***************************************************************************)
Call(c) ==
    /\ pc[c] = "idle"
    /\ target[c].kind # "none"
    /\ \/ phase = "conc"
       \/ \A d \in Calls \ {c} : IF d < c THEN pc[d] = "done" ELSE pc[d] = "idle"
    /\ pre' = [pre EXCEPT ![c] = fs]
    /\ IF target[c].kind = "path"
       THEN /\ self' = [self EXCEPT ![c] = target[c].path]
            /\ ret' = [ret EXCEPT ![c] = "top"]
            /\ Goto(c, "p_is_file")
       ELSE /\ Goto(c, "t_derive")
            /\ UNCHANGED <<self, ret>>
    /\ overlapped' = (overlapped \/ \E d \in Calls : Active(d))
    /\ UNCHANGED <<fs, input, tlocals, slocals, log>>

(***************************************************************************)
(* impl Shreddable for PathBuf                                             *)
(***************************************************************************)
\* lines 16-22 with the two checks in the other order: exists, then is_file
IsFileExistsFirst(c) ==
    /\ pc[c] = "p_is_file"
    /\ Logged(c, "PathBuf::shred", "is_file", self[c], TRUE, 0)
    /\ IF ~exists(fs, self[c]) THEN Return(c, "File does not exist")
       ELSE IF ~is_file(fs, self[c]) THEN Return(c, "Ok")
       ELSE Goto(c, "p_exists")
    /\ UNCHANGED <<fs, input, pre, overlapped, tlocals, self, ret, slocals>>

\* lines 16-18
IsFile(c) ==
    /\ pc[c] = "p_is_file"
    /\ Logged(c, "PathBuf::shred", "is_file", self[c], TRUE, 0)
    /\ IF ~is_file(fs, self[c]) THEN Return(c, "Ok") ELSE Goto(c, "p_exists")
    /\ UNCHANGED <<fs, input, pre, overlapped, tlocals, self, ret, slocals>>

\* lines 20-24
Exists(c) ==
    /\ pc[c] = "p_exists"
    /\ Logged(c, "PathBuf::shred", "exists", self[c], TRUE, 0)
    /\ IF ~exists(fs, self[c]) THEN Return(c, "File does not exist")
       ELSE Goto(c, "s_open")
    /\ UNCHANGED <<fs, input, pre, overlapped, tlocals, self, ret, slocals>>

(***************************************************************************)
(* shred_by_path                                                           *)
(***************************************************************************)
\* lines 100-105: open for writing, no create, no truncate
Open(c) ==
    /\ pc[c] = "s_open"
    /\ LET res == Io(c, OpenRes(fs, self[c])) IN
       /\ Logged(c, "shred_by_path", "open", self[c], res = "Ok", 0)
       /\ IF res = "Ok"
          THEN /\ file' = [file EXCEPT ![c] = Canon(fs, self[c], TRUE)]
               /\ Goto(c, "s_metadata")
          ELSE /\ Return(c, res)
               /\ UNCHANGED file
    /\ UNCHANGED <<fs, input, pre, overlapped, tlocals, self, ret, file_size, bytes_written>>

\* lines 107-113 with file_size kept in a static shared by all calls
MetadataShared(c) ==
    /\ pc[c] = "s_metadata"
    /\ LET ok == ~Faulty(c) IN
       /\ Logged(c, "shred_by_path", "metadata", self[c], ok,
                 IF ok THEN DataLen(fs[file[c]].data) ELSE 0)
       /\ IF ok
          THEN /\ file_size' = [d \in Calls |-> DataLen(fs[file[c]].data)]
               /\ bytes_written' = [bytes_written EXCEPT ![c] = 0]
               /\ Goto(c, "s_loop")
          ELSE /\ Return(c, EIO)
               /\ UNCHANGED <<file_size, bytes_written>>
    /\ UNCHANGED <<fs, input, pre, overlapped, tlocals, self, ret, file>>

\* lines 107-113
Metadata(c) ==
    /\ pc[c] = "s_metadata"
    /\ LET ok == ~Faulty(c) IN
       /\ Logged(c, "shred_by_path", "metadata", self[c], ok,
                 IF ok THEN DataLen(fs[file[c]].data) ELSE 0)
       /\ IF ok
          THEN /\ file_size' = [file_size EXCEPT ![c] = DataLen(fs[file[c]].data)]
               /\ bytes_written' = [bytes_written EXCEPT ![c] = 0]
               /\ Goto(c, "s_loop")
          ELSE /\ Return(c, EIO)
               /\ UNCHANGED <<file_size, bytes_written>>
    /\ UNCHANGED <<fs, input, pre, overlapped, tlocals, self, ret, file>>

\* the loop of line 114 stopping before a last, partly filled buffer
LoopCondWholeBuffers(c) == bytes_written[c] + buffer_size <= file_size[c]

\* the loop of line 114 with <= for <
LoopCondInclusive(c) == bytes_written[c] <= file_size[c]

\* line 114: the loop condition
LoopCond(c) == bytes_written[c] < file_size[c]

\* lines 114-118 going round the loop again when write_all has failed
WriteAllRetried(c) ==
    /\ pc[c] = "s_loop"
    /\ LoopCond(c)
    /\ LET ok == ~Faulty(c)
           n == IF ok THEN buffer_size ELSE partial[c]
       IN
       /\ Logged(c, "shred_by_path", "write_all", self[c], ok, n)
       /\ fs' = IF KindOf(fs, file[c]) = "file"
                THEN [fs EXCEPT ![file[c]].data = WriteAt(@, bytes_written[c], zero_buffer, n)]
                ELSE fs
       /\ bytes_written' = [bytes_written EXCEPT ![c] = @ + n]
       /\ Goto(c, "s_loop")
    /\ UNCHANGED <<input, pre, overlapped, tlocals, self, ret, file, file_size>>

\* lines 114-118, one iteration: the file position is bytes_written, the file
\* having been opened at position 0 and written by this loop only
WriteAll(c) ==
    /\ pc[c] = "s_loop"
    /\ LoopCond(c)
    /\ LET ok == ~Faulty(c)
           n == IF ok THEN buffer_size ELSE partial[c]
       IN
       /\ Logged(c, "shred_by_path", "write_all", self[c], ok, n)
       /\ fs' = IF KindOf(fs, file[c]) = "file"
                THEN [fs EXCEPT ![file[c]].data = WriteAt(@, bytes_written[c], zero_buffer, n)]
                ELSE fs
       /\ IF ok
          THEN /\ bytes_written' = [bytes_written EXCEPT ![c] = @ + buffer_size]
               /\ Goto(c, "s_loop")
          ELSE /\ Return(c, EIO)
               /\ UNCHANGED bytes_written
    /\ UNCHANGED <<input, pre, overlapped, tlocals, self, ret, file, file_size>>

\* lines 114 (loop exit) and 120-121
Flush(c) ==
    /\ pc[c] = "s_loop"
    /\ ~LoopCond(c)
    /\ LET ok == ~Faulty(c) IN
       /\ Logged(c, "shred_by_path", "flush", self[c], ok, 0)
       /\ IF ok THEN Goto(c, "s_sync") ELSE Return(c, EIO)
    /\ UNCHANGED <<fs, input, pre, overlapped, tlocals, self, ret, slocals>>

\* lines 123-124 without the `?`: the result of sync_all is dropped
SyncAllUnchecked(c) ==
    /\ pc[c] = "s_sync"
    /\ Logged(c, "shred_by_path", "sync_all", self[c], ~Faulty(c), 0)
    /\ Goto(c, "s_remove")
    /\ UNCHANGED <<fs, input, pre, overlapped, tlocals, self, ret, slocals>>

\* lines 123-124
SyncAll(c) ==
    /\ pc[c] = "s_sync"
    /\ LET ok == ~Faulty(c) IN
       /\ Logged(c, "shred_by_path", "sync_all", self[c], ok, 0)
       /\ IF ok THEN Goto(c, "s_remove") ELSE Return(c, EIO)
    /\ UNCHANGED <<fs, input, pre, overlapped, tlocals, self, ret, slocals>>

\* lines 126-129
RemovePath(c) ==
    /\ pc[c] = "s_remove"
    /\ LET res == Io(c, RemoveFileRes(fs, self[c])) IN
       /\ Logged(c, "shred_by_path", "remove_file", self[c], res = "Ok", 0)
       /\ fs' = IF res = "Ok" THEN AfterRemoveFile(fs, self[c]) ELSE fs
       /\ Return(c, res)
    /\ UNCHANGED <<input, pre, overlapped, tlocals, self, ret, slocals>>

(***************************************************************************)
(* impl Shreddable for TrashItem                                           *)
(***************************************************************************)
\* line 30
info_file(c) == target[c].path

\* lines 33-39 crawling up one directory only
trash_folder_one_up(c) == parent(target[c].path)

\* lines 33-39: None when either parent() is None
trash_folder(c) ==
    LET p == parent(info_file(c)) IN
    IF ~p.some THEN None ELSE parent(p.v)

\* lines 41-44
name_in_trash(c) == file_stem(info_file(c))

\* lines 30-48: the path arithmetic; no filesystem call
Derive(c) ==
    /\ pc[c] = "t_derive"
    /\ IF ~trash_folder(c).some
       THEN /\ Finish(c, "Parent does not exist")
            /\ UNCHANGED full_file
       ELSE IF ~name_in_trash(c).some
       THEN /\ Finish(c, "File has no name")
            /\ UNCHANGED full_file
       ELSE /\ full_file' = [full_file EXCEPT
                   ![c] = join(join(trash_folder(c).v, nFiles), name_in_trash(c).v)]
            /\ Goto(c, "t_is_dir")
    /\ UNCHANGED <<fs, input, pre, overlapped, new_paths_it, self, ret, slocals, log>>

\* lines 52-54 and 72-73: the branch on full_file.is_dir(); WalkDir::new
\* starts with the root entry to yield
IsDir(c) ==
    /\ pc[c] = "t_is_dir"
    /\ Logged(c, "TrashItem::shred", "is_dir", full_file[c], TRUE, 0)
    /\ IF is_dir(fs, full_file[c])
       THEN /\ new_paths_it' = [new_paths_it EXCEPT ![c] = <<full_file[c]>>]
            /\ Goto(c, "t_skip")
            /\ UNCHANGED <<self, ret>>
       ELSE /\ self' = [self EXCEPT ![c] = full_file[c]]
            /\ ret' = [ret EXCEPT ![c] = "else"]
            /\ Goto(c, "p_is_file")
            /\ UNCHANGED new_paths_it
    /\ UNCHANGED <<fs, input, pre, overlapped, full_file, slocals>>

\* line 56, skip(1): the walk yields its root, which is dropped; yielding a
\* directory puts its entries in front of what is left to yield (the root is
\* descended into also when it is a link to a directory)
SkipRoot(c) ==
    /\ pc[c] = "t_skip"
    /\ Logged(c, "TrashItem::shred", "walk_root", Head(new_paths_it[c]), TRUE, 0)
    /\ new_paths_it' = [new_paths_it EXCEPT
           ![c] = read_dir(fs, Head(@)) \o Tail(@)]
    /\ Goto(c, "t_next")
    /\ UNCHANGED <<fs, input, pre, overlapped, full_file, self, ret, slocals>>

\* lines 56-60 with a walk that does not descend into the directories it yields
WalkNextFlat(c) ==
    /\ pc[c] = "t_next"
    /\ LET it == new_paths_it[c]
           res == Io(c, "Ok")
       IN
       /\ Logged(c, "TrashItem::shred", "next",
                 IF it = <<>> THEN full_file[c] ELSE Head(it), res = "Ok", 0)
       /\ IF res # "Ok"
          THEN /\ Finish(c, res)
               /\ UNCHANGED <<new_paths_it, self, ret>>
          ELSE IF it = <<>>
          THEN /\ Goto(c, "t_remove_dir_all")
               /\ UNCHANGED <<new_paths_it, self, ret>>
          ELSE /\ new_paths_it' = [new_paths_it EXCEPT ![c] = Tail(it)]
               /\ self' = [self EXCEPT ![c] = Head(it)]
               /\ ret' = [ret EXCEPT ![c] = "loop"]
               /\ Goto(c, "p_is_file")
    /\ UNCHANGED <<fs, input, pre, overlapped, full_file, slocals>>

\* lines 56-60: the next entry of the walk, depth first, links not followed;
\* the entry's path is shredded; the loop ends when nothing is left
WalkNext(c) ==
    /\ pc[c] = "t_next"
    /\ LET it == new_paths_it[c]
           res == Io(c, "Ok")
       IN
       /\ Logged(c, "TrashItem::shred", "next",
                 IF it = <<>> THEN full_file[c] ELSE Head(it), res = "Ok", 0)
       /\ IF res # "Ok"
          THEN /\ Finish(c, res)
               /\ UNCHANGED <<new_paths_it, self, ret>>
          ELSE IF it = <<>>
          THEN /\ Goto(c, "t_remove_dir_all")
               /\ UNCHANGED <<new_paths_it, self, ret>>
          ELSE /\ new_paths_it' = [new_paths_it EXCEPT
                      ![c] = (IF KindOf(fs, Canon(fs, Head(it), FALSE)) = "dir"
                              THEN read_dir(fs, Head(it)) ELSE <<>>) \o Tail(it)]
               /\ self' = [self EXCEPT ![c] = Head(it)]
               /\ ret' = [ret EXCEPT ![c] = "loop"]
               /\ Goto(c, "p_is_file")
    /\ UNCHANGED <<fs, input, pre, overlapped, full_file, slocals>>

\* lines 63-65
RemoveDirAll(c) ==
    /\ pc[c] = "t_remove_dir_all"
    /\ LET res == Io(c, RemoveDirAllRes(fs, full_file[c])) IN
       /\ Logged(c, "TrashItem::shred", "remove_dir_all", full_file[c], res = "Ok", 0)
       /\ fs' = IF res = "Ok" THEN AfterRemoveDirAll(fs, full_file[c]) ELSE fs
       /\ IF res = "Ok" THEN Goto(c, "t_remove_info_dir") ELSE Finish(c, res)
    /\ UNCHANGED <<input, pre, overlapped, tlocals, self, ret, slocals>>

\* lines 67-70
RemoveInfoDir(c) ==
    /\ pc[c] = "t_remove_info_dir"
    /\ LET res == Io(c, RemoveFileRes(fs, info_file(c))) IN
       /\ Logged(c, "TrashItem::shred", "remove_file", info_file(c), res = "Ok", 0)
       /\ fs' = IF res = "Ok" THEN AfterRemoveFile(fs, info_file(c)) ELSE fs
       /\ Finish(c, res)
    /\ UNCHANGED <<input, pre, overlapped, tlocals, self, ret, slocals>>

\* lines 74-76 without line 74: the record is left in place
RemoveInfoElseSkipped(c) ==
    /\ pc[c] = "t_remove_info"
    /\ Finish(c, shred_res[c])
    /\ UNCHANGED <<fs, input, pre, overlapped, tlocals, self, ret, slocals, log>>

\* lines 74-76 without the `?` of line 75: the result of the removal is dropped
RemoveInfoElseUnchecked(c) ==
    /\ pc[c] = "t_remove_info"
    /\ LET res == Io(c, RemoveFileRes(fs, info_file(c))) IN
       /\ Logged(c, "TrashItem::shred", "remove_file", info_file(c), res = "Ok", 0)
       /\ fs' = IF res = "Ok" THEN AfterRemoveFile(fs, info_file(c)) ELSE fs
       /\ Finish(c, shred_res[c])
    /\ UNCHANGED <<input, pre, overlapped, tlocals, self, ret, slocals>>

\* lines 74-76
RemoveInfoElse(c) ==
    /\ pc[c] = "t_remove_info"
    /\ LET res == Io(c, RemoveFileRes(fs, info_file(c))) IN
       /\ Logged(c, "TrashItem::shred", "remove_file", info_file(c), res = "Ok", 0)
       /\ fs' = IF res = "Ok" THEN AfterRemoveFile(fs, info_file(c)) ELSE fs
       /\ Finish(c, IF res = "Ok" THEN shred_res[c] ELSE res)
    /\ UNCHANGED <<input, pre, overlapped, tlocals, self, ret, slocals>>

(***************************************************************************)
(* Initial states                                                          *)
(***************************************************************************)
\* file lengths: empty, one byte, and around each whole number of buffers
Lengths ==
    {0, 1} \cup {k * buffer_size + d : k \in 1..MaxChunks, d \in {-1, 0, 1}}

Partials == {0, 1}

\* what the Content Location /T/files/n is
Contents == {"absent", "file", "emptydir", "dir", "dirlink", "link", "linkdir"}

pOutside == <<nO, <<"x">>>>
pRecN == <<nT, nInfo, nRecN>>
pRecM == <<nT, nInfo, nRecM>>
pRecNX == <<nT, nInfo, nRecNX>>
pN == <<nT, nFiles, nN>>
pM == <<nT, nFiles, nM>>
pNX == <<nT, nFiles, nNX>>

\* a trash directory /T with the records n.e, m.e and n.x.e, the content of n
\* as `content` says and the contents of m and n.x one-byte files, and a
\* directory /O
\* outside the trash with the file x; len is the length of the files x, n, n/f
InitFs(content, hasInfo, len) ==
    [q \in Paths |->
        CASE q \in {<<>>, <<nT>>, <<nT, nInfo>>, <<nT, nFiles>>, <<nO>>} -> Dir
          [] q = pRecN -> IF hasInfo THEN File(Bytes(2, 1)) ELSE NoNode
          [] q \in {pRecM, pRecNX} -> File(Bytes(2, 1))
          [] q \in {pM, pNX} -> File(Bytes(1, 1))
          [] q = pOutside -> File(Bytes(len, 1))
          [] q = pN ->
                CASE content = "file" -> File(Bytes(len, 1))
                  [] content \in {"emptydir", "dir", "dirlink"} -> Dir
                  [] content = "link" -> Link(pOutside)
                  [] content = "linkdir" -> Link(<<nO>>)
                  [] OTHER -> NoNode
          [] q = Append(pN, <<"f">>) ->
                IF content \in {"dir", "dirlink"} THEN File(Bytes(len, 1)) ELSE NoNode
          [] q = Append(pN, <<"d">>) -> IF content = "dir" THEN Dir ELSE NoNode
          [] q = pN \o << <<"d">>, <<"g">> >> ->
                IF content = "dir" THEN File(Bytes(1, 1)) ELSE NoNode
          [] q = Append(pN, <<"l">>) ->
                IF content = "dirlink" THEN Link(pOutside) ELSE NoNode
          [] OTHER -> NoNode]

PathTarget(p) == [kind |-> "path", path |-> p]
TrashHandle(p) == [kind |-> "trash", path |-> p]
NoTarget == [kind |-> "none", path |-> Rel(<<>>)]

\* Path-Targets: a file, a directory, a name at which nothing exists, and the
\* Content Location itself
PathTargets ==
    {PathTarget(Abs(pOutside)), PathTarget(Abs(<<nO>>)),
     PathTarget(Abs(<<nO, <<"z">>>>)), PathTarget(Abs(pN))}

\* Trash-Handles: /T/info/n.e, /T/info/n.x.e, /Z/info/n.e with no /Z, and the
\* handles n.e, info/n.e, /n.e, /T/info/.., / and the empty string
TrashHandles ==
    {TrashHandle(Abs(pRecN)), TrashHandle(Abs(pRecNX)),
     TrashHandle(Abs(<< <<"Z">>, nInfo, nRecN >>)), TrashHandle(Rel(<<nRecN>>)),
     TrashHandle(Rel(<<nInfo, nRecN>>)), TrashHandle(Abs(<<nRecN>>)),
     TrashHandle(Abs(<<nT, nInfo, DotDot>>)), TrashHandle(Abs(<<>>)),
     TrashHandle(Rel(<<>>))}

LocalsInit ==
    /\ pc = [c \in Calls |-> "idle"]
    /\ full_file = [c \in Calls |-> Rel(<<>>)]
    /\ new_paths_it = [c \in Calls |-> <<>>]
    /\ self = [c \in Calls |-> Rel(<<>>)]
    /\ ret = [c \in Calls |-> "none"]
    /\ file = [c \in Calls |-> NoEnt]
    /\ file_size = [c \in Calls |-> 0]
    /\ bytes_written = [c \in Calls |-> 0]
    /\ shred_res = [c \in Calls |-> "none"]
    /\ result = [c \in Calls |-> "none"]
    /\ log = [c \in Calls |-> <<>>]

\* one call, on any target, with any one failure; and the same call made once
\* more after it (without a failure)
Init ==
    /\ \E content \in Contents, hasInfo \in BOOLEAN, len \in Lengths :
          fs = InitFs(content, hasInfo, len)
    /\ fs0 = fs
    /\ pre = [c \in Calls |-> fs]
    /\ seq = [result |-> [c \in Calls |-> "none"], fs |-> fs]
    /\ phase = "seq"
    /\ overlapped = FALSE
    /\ \E t \in PathTargets \cup TrashHandles, again \in BOOLEAN, k \in 0..MaxFault,
          n \in Partials :
          /\ k = 0 => n = 0
          /\ again => k = 0
          /\ target = [c \in Calls |-> IF c = 1 \/ again THEN t ELSE NoTarget]
          /\ fault = [c \in Calls |-> IF c = 1 THEN k ELSE 0]
          /\ partial = [c \in Calls |-> IF c = 1 THEN n ELSE 0]
    /\ LocalsInit

Step(c) ==
    \/ Call(c)
    \/ IsFile(c)
    \/ Exists(c)
    \/ Open(c)
    \/ Metadata(c)
    \/ WriteAll(c)
    \/ Flush(c)
    \/ SyncAll(c)
    \/ RemovePath(c)
    \/ Derive(c)
    \/ IsDir(c)
    \/ SkipRoot(c)
    \/ WalkNext(c)
    \/ RemoveDirAll(c)
    \/ RemoveInfoDir(c)
    \/ RemoveInfoElse(c)

Next == \E c \in Calls : Step(c)

Spec == Init /\ [][Next]_vars

(***************************************************************************)
(* Two calls on disjoint targets: they first run one after the other, then *)
(* the filesystem is put back as it was and they run again, interleaved    *)
(* step by step, with the same injected failures.                          *)
(***************************************************************************)
\* the paths a call works on: the paths it names, what lies under them, and
\* what their links lead to
Reach(f, S) ==
    S \cup {q \in Paths : \E c \in S : KindOf(f, c) = "dir" /\ Under(c, q)}
      \cup {f[c].to : c \in {q \in S \cap Paths : f[q].kind = "link"}}

Footprint(f, t) ==
    LET p1 == parent(t.path)
        p2 == IF p1.some THEN parent(p1.v) ELSE None
        st == file_stem(t.path)
        S0 == IF t.kind = "path" THEN {Canon(f, t.path, FALSE)}
              ELSE IF ~p2.some \/ ~st.some THEN {}
              ELSE {Canon(f, t.path, FALSE),
                    Canon(f, join(join(p2.v, nFiles), st.v), FALSE)}
    IN Reach(f, Reach(f, Reach(f, S0)))

Disjoint(f, t, u) == Footprint(f, t) \cap Footprint(f, u) = {}

ConcTargets ==
    <<TrashHandle(Abs(pRecN)), PathTarget(Abs(pOutside)), TrashHandle(Abs(pRecM))>>

InitConc ==
    /\ \E content \in {"file", "dir"}, len \in {0, MaxChunks * buffer_size + 1} :
          fs = InitFs(content, TRUE, len)
    /\ fs0 = fs
    /\ pre = [c \in Calls |-> fs]
    /\ seq = [result |-> [c \in Calls |-> "none"], fs |-> fs]
    /\ phase = "seq"
    /\ overlapped = FALSE
    /\ \E i \in DOMAIN ConcTargets, j \in DOMAIN ConcTargets :
          /\ i < j
          /\ Disjoint(fs, ConcTargets[i], ConcTargets[j])
          /\ target = [c \in Calls |-> IF c = 1 THEN ConcTargets[i] ELSE ConcTargets[j]]
    /\ \E c \in Calls, k \in 0..MaxFault :
          /\ k = 0 => c = 1
          /\ fault = [d \in Calls |-> IF d = c THEN k ELSE 0]
          /\ partial = [d \in Calls |-> IF d = c /\ k > 0 THEN 1 ELSE 0]
    /\ LocalsInit

\* the sequential run is over: remember its outcome and start again
Restart ==
    /\ phase = "seq"
    /\ \A c \in Calls : pc[c] = "done"
    /\ seq' = [result |-> result, fs |-> fs]
    /\ phase' = "conc"
    /\ fs' = fs0
    /\ pre' = [c \in Calls |-> fs0]
    /\ pc' = [c \in Calls |-> "idle"]
    /\ full_file' = [c \in Calls |-> Rel(<<>>)]
    /\ new_paths_it' = [c \in Calls |-> <<>>]
    /\ self' = [c \in Calls |-> Rel(<<>>)]
    /\ ret' = [c \in Calls |-> "none"]
    /\ file' = [c \in Calls |-> NoEnt]
    /\ file_size' = [c \in Calls |-> 0]
    /\ bytes_written' = [c \in Calls |-> 0]
    /\ shred_res' = [c \in Calls |-> "none"]
    /\ result' = [c \in Calls |-> "none"]
    /\ log' = [c \in Calls |-> <<>>]
    /\ UNCHANGED <<target, fault, partial, fs0, overlapped>>

NextConc ==
    \/ \E c \in Calls : Step(c)
    \/ Restart

SpecConc == InitConc /\ [][NextConc]_vars

(***************************************************************************)
(* Properties                                                              *)
(***************************************************************************)
IsPathCall(c) == target[c].kind = "path" /\ pc[c] # "idle"
IsTrashCall(c) == target[c].kind = "trash" /\ pc[c] # "idle"
Returned(c) == pc[c] = "done"

\* the handle has a Trash Root and a stored name
WellFormed(h) ==
    /\ parent(h).some
    /\ parent(parent(h).v).some
    /\ file_stem(h).some

\* Content Location of a well-formed handle: Trash Root / "files" / stored name
ContentOf(h) == join(join(parent(parent(h).v).v, nFiles), file_stem(h).v)

\* the bytes the write_all calls at positions lo..hi of a log wrote
RECURSIVE Written(_, _, _)
Written(lg, lo, hi) ==
    IF lo > hi THEN 0
    ELSE (IF lg[lo].op = "write_all" THEN lg[lo].n ELSE 0) + Written(lg, lo + 1, hi)

\* the position of the last entry of lg before position i with operation op
RECURSIVE LastBefore(_, _, _)
LastBefore(lg, i, op) ==
    IF i <= 1 THEN 0
    ELSE IF lg[i - 1].op = op THEN i - 1
    ELSE LastBefore(lg, i - 1, op)

IsUnlink(e) == e.fn = "shred_by_path" /\ e.op = "remove_file"

\* C1: Path-Target shred of a regular file of length L: about to unlink, the
\* file holds at least L bytes, its first L bytes are zero and the write_all
\* calls have written at least L bytes; and once shred has returned Ok the
\* last call it issued is the successful unlink and nothing is at the path.
C1_ShredZeroesThenUnlinks ==
    \A c \in Calls :
        LET q == Canon(pre[c], target[c].path, FALSE) IN
        (IsPathCall(c) /\ KindOf(pre[c], q) = "file") =>
            LET L == DataLen(pre[c][q].data) IN
            /\ pc[c] = "s_remove" =>
                  /\ KindOf(fs, q) = "file"
                  /\ DataLen(Take(fs[q].data, L)) = L
                  /\ AllZero(Take(fs[q].data, L))
                  /\ Written(log[c], 1, Len(log[c])) >= L
            /\ (Returned(c) /\ result[c] = "Ok") =>
                  /\ IsUnlink(Last(log[c])) /\ Last(log[c]).ok
                  /\ ~exists(fs, target[c].path)
                  /\ KindOf(fs, q) = "none"

C1_Witness ==
    \E c \in Calls :
        LET q == Canon(pre[c], target[c].path, FALSE) IN
        /\ IsPathCall(c) /\ KindOf(pre[c], q) = "file"
        /\ DataLen(pre[c][q].data) = buffer_size + 1
        /\ Returned(c) /\ result[c] = "Ok"
        /\ KindOf(fs, q) = "none"

\* C2: every unlink that shred_by_path issues comes directly after a
\* successful sync_all, which comes directly after a successful flush, which
\* comes directly after the overwrite pass: whole-buffer write_all calls, all
\* successful, that cover the length metadata returned.
C2_UnlinkAfterOverwriteFlushSync ==
    \A c \in Calls : \A i \in DOMAIN log[c] :
        IsUnlink(log[c][i]) =>
            LET lg == log[c]
                j == LastBefore(lg, i, "metadata")
            IN
            /\ j >= 2 /\ j <= i - 3
            /\ lg[j - 1].op = "open" /\ lg[j - 1].ok /\ lg[j].ok
            /\ \A k \in (j + 1)..(i - 3) :
                  lg[k].op = "write_all" /\ lg[k].ok /\ lg[k].n = buffer_size
            /\ (i - 3 - j) * buffer_size >= lg[j].n
            /\ lg[i - 2].op = "flush" /\ lg[i - 2].ok
            /\ lg[i - 1].op = "sync_all" /\ lg[i - 1].ok
            /\ \A k \in (j - 1)..i : lg[k].path = lg[i].path

C2_Witness ==
    \E c \in Calls : \E i \in DOMAIN log[c] :
        /\ IsUnlink(log[c][i]) /\ log[c][i].ok
        /\ Written(log[c], 1, i) = (MaxChunks + 1) * buffer_size
        /\ Returned(c)

\* C3: when Trash-Handle shred has returned Ok, the metadata record is gone,
\* and so is the Content Location: the file if it was a regular file; the
\* directory and everything that was under it if it was a directory.
C3_NothingRemains ==
    \A c \in Calls :
        (IsTrashCall(c) /\ WellFormed(target[c].path)
                        /\ Returned(c) /\ result[c] = "Ok") =>
            LET rec == Canon(pre[c], target[c].path, FALSE)
                loc == Canon(pre[c], ContentOf(target[c].path), FALSE)
            IN
            /\ KindOf(pre[c], loc) = "file" =>
                  KindOf(fs, loc) = "none" /\ KindOf(fs, rec) = "none"
            /\ KindOf(pre[c], loc) = "dir" =>
                  /\ \A q \in Paths : Under(loc, q) => KindOf(fs, q) = "none"
                  /\ KindOf(fs, rec) = "none"

\* a directory with a file in it and a file in a subdirectory has been shredded
C3_Witness ==
    \E c \in Calls :
        /\ IsTrashCall(c) /\ WellFormed(target[c].path)
        /\ Returned(c) /\ result[c] = "Ok"
        /\ LET loc == Canon(pre[c], ContentOf(target[c].path), FALSE) IN
           /\ KindOf(pre[c], loc) = "dir"
           /\ \E q \in Paths : Len(q) = Len(loc) + 2 /\ Under(loc, q)
                               /\ KindOf(pre[c], q) = "file"
           /\ \A q \in Paths : Under(loc, q) => KindOf(fs, q) = "none"

\* the regular file at the Content Location and its record are gone
C3_WitnessFile ==
    \E c \in Calls :
        /\ IsTrashCall(c) /\ WellFormed(target[c].path)
        /\ Returned(c) /\ result[c] = "Ok"
        /\ KindOf(pre[c], Canon(pre[c], ContentOf(target[c].path), FALSE)) = "file"

\* C4 (as claimed): the Content Location being a regular file or absent, when
\* the shred of the content has failed the removal of the record is still
\* attempted and the call returns the error of the shred, whatever the
\* removal of the record gave.
C4_ShredErrorReturned ==
    \A c \in Calls :
        (/\ IsTrashCall(c) /\ WellFormed(target[c].path)
         /\ KindOf(pre[c], Canon(pre[c], ContentOf(target[c].path), FALSE))
               \in {"file", "none"}
         /\ Returned(c) /\ shred_res[c] \notin {"none", "Ok"}) =>
            /\ Last(log[c]).fn = "TrashItem::shred"
            /\ Last(log[c]).op = "remove_file"
            /\ Last(log[c]).path = target[c].path
            /\ result[c] = shred_res[c]

\* C5 (as claimed): whenever the call has removed the metadata record, no
\* regular file that was at or under the Content Location is still there.
C5_RecordRemovedAfterContent ==
    \A c \in Calls :
        (IsTrashCall(c) /\ WellFormed(target[c].path)) =>
            LET rec == Canon(pre[c], target[c].path, FALSE)
                loc == Canon(pre[c], ContentOf(target[c].path), FALSE)
            IN
            (KindOf(pre[c], rec) = "file" /\ KindOf(fs, rec) = "none") =>
                \A q \in Paths :
                    (Under(loc, q) /\ KindOf(pre[c], q) = "file") =>
                        KindOf(fs, q) # "file"

\* C6 (as claimed): Path-Target shred of a path at which nothing exists
\* returns the error "File does not exist".
C6_MissingFileFails ==
    \A c \in Calls :
        (/\ IsPathCall(c)
         /\ KindOf(pre[c], Canon(pre[c], target[c].path, FALSE)) = "none"
         /\ Returned(c)) =>
            result[c] = "File does not exist"

\* C7: Path-Target shred of a path that names a directory leaves the whole
\* filesystem as it was when the call started and returns Ok; called again,
\* it returns the same and the filesystem is still the initial one.
C7_DirectoryNoOp ==
    \A c \in Calls :
        (IsPathCall(c) /\ is_dir(pre[c], target[c].path)) =>
            /\ fs = pre[c]
            /\ fs = fs0
            /\ Returned(c) => result[c] = "Ok"
            /\ \A d \in Calls : Returned(c) /\ Returned(d) => result[d] = result[c]

\* a directory with files in it has been the target twice
C7_Witness ==
    /\ \A c \in Calls : IsPathCall(c) /\ is_dir(pre[c], target[c].path) /\ Returned(c)
    /\ \E q \in Paths : /\ Under(Canon(fs, target[1].path, TRUE), q)
                        /\ KindOf(fs, q) = "file"
    /\ Len(log[1]) > 0 /\ Len(log[2]) > 0

\* the directories a handle string names above its last component, the root
\* of an absolute path being one
ParentLevels(h) ==
    (IF h.comps = <<>> THEN 0 ELSE Len(h.comps) - 1) + (IF h.abs THEN 1 ELSE 0)

Malformed == {"Parent does not exist", "File has no name"}

C8_WitnessNoName ==
    \E c \in Calls :
        /\ IsTrashCall(c) /\ Returned(c)
        /\ ~file_name(target[c].path).some /\ Len(target[c].path.comps) >= 2
        /\ result[c] = "File has no name"

\* C9: a failed call of shred_by_path is the last call the Shredder issues:
\* after it the call is out of the Shredder, only the removal of the record
\* (line 74) may follow, the result is never Ok, and the file is still there,
\* its content the original one overwritten by exactly the bytes that the
\* write_all calls, the failing one included, have written.
C9_ShredderStopsAtFailure ==
    \A c \in Calls : \A i \in DOMAIN log[c] :
        (log[c][i].fn = "shred_by_path" /\ ~log[c][i].ok) =>
            LET lg == log[c]
                q == Canon(pre[c], lg[i].path, TRUE)
                W == Written(lg, LastBefore(lg, i + 1, "open"), i)
            IN
            /\ \A j \in DOMAIN lg :
                  j > i => lg[j].fn = "TrashItem::shred" /\ lg[j].op = "remove_file"
            /\ pc[c] \in {"t_remove_info", "done"}
            /\ Returned(c) => result[c] # "Ok"
            /\ KindOf(fs, q) = "file"
            /\ fs[q].data = WriteAt(pre[c][q].data, 0, Bytes(W, 0), W)

\* a write_all failed after writing one byte of a longer file
C9_Witness ==
    \E c \in Calls : \E i \in DOMAIN log[c] :
        /\ log[c][i].op = "write_all" /\ ~log[c][i].ok /\ log[c][i].n = 1
        /\ Written(log[c], 1, i) = buffer_size + 1
        /\ Returned(c) /\ result[c] = EIO

\* sync_all failed and the file, fully overwritten, is still there
C9_WitnessSync ==
    \E c \in Calls : \E i \in DOMAIN log[c] :
        /\ log[c][i].op = "sync_all" /\ ~log[c][i].ok
        /\ Returned(c)
        /\ is_file(fs, log[c][i].path)

\* C10: two calls on disjoint targets, interleaved step by step in any way:
\* when both have returned, each has returned what it returned when the two
\* ran one after the other, and the filesystem is the one that run left.
C10_InterleavedAsSequential ==
    (phase = "conc" /\ \A c \in Calls : Returned(c)) =>
        /\ result = seq.result
        /\ fs = seq.fs

\* the two calls have run at the same time, one of them failing
C10_Witness ==
    /\ phase = "conc"
    /\ overlapped
    /\ \A c \in Calls : Returned(c)
    /\ \E c \in Calls : result[c] = "Ok"
    /\ \E c \in Calls : result[c] = EIO
    /\ fs # fs0

\* the call is in shred_by_path with the file open
FileOpen(c) == pc[c] \in {"s_metadata", "s_loop", "s_sync", "s_remove"}

\* C11 (as claimed): from the open to the unlink, the file that shred_by_path
\* overwrites is never longer than it was when the call started.
C11_NoExtension ==
    \A c \in Calls :
        (FileOpen(c) /\ KindOf(pre[c], file[c]) = "file" /\ KindOf(fs, file[c]) = "file") =>
            DataLen(fs[file[c]].data) <= DataLen(pre[c][file[c]].data)

\* the call has taken the directory branch (lines 53-70)
InDirBranch(c) == \E i \in DOMAIN log[c] : log[c][i].op = "walk_root"

\* a step of the enumeration, or of the shredding of a descendant
IsWalkStep(e) == e.op = "next" \/ e.fn \in {"PathBuf::shred", "shred_by_path"}

C12_WitnessEnumerate ==
    \E c \in Calls :
        /\ IsTrashCall(c) /\ InDirBranch(c) /\ Returned(c)
        /\ Last(log[c]).op = "next" /\ ~Last(log[c]).ok
        /\ \E j \in DOMAIN log[c] : IsUnlink(log[c][j]) /\ log[c][j].ok
        /\ KindOf(fs, Canon(pre[c], full_file[c], FALSE)) = "dir"

\* the entry is the removal of the metadata record (lines 67 and 74)
IsRecordRemoval(e) == e.fn = "TrashItem::shred" /\ e.op = "remove_file"

\* C13: in the file-or-absent branch of Trash-Handle shred, when the shred of
\* the content returned Ok (it succeeded, or the Content Location was absent
\* and it did nothing) and the removal of the record has failed, the call has
\* returned the error of the removal: the injected I/O error, or the error
\* remove_file gives for what is at the record's path; and never Ok.
C13_RecordRemovalErrorReturned ==
    \A c \in Calls :
        (/\ IsTrashCall(c) /\ ~InDirBranch(c) /\ shred_res[c] = "Ok"
         /\ log[c] # <<>> /\ IsRecordRemoval(Last(log[c])) /\ ~Last(log[c]).ok) =>
            /\ Returned(c)
            /\ result[c] # "Ok"
            /\ result[c] \in {EIO, RemoveFileRes(fs, target[c].path)}
            /\ fault[c] # Len(SelectSeq(log[c], LAMBDA e : e.op \in Fallible)) =>
                  result[c] = RemoveFileRes(fs, target[c].path)

\* the content file has been shredded and the removal of the record failed
C13_Witness ==
    \E c \in Calls :
        /\ IsTrashCall(c) /\ ~InDirBranch(c) /\ shred_res[c] = "Ok" /\ Returned(c)
        /\ IsRecordRemoval(Last(log[c])) /\ ~Last(log[c]).ok
        /\ KindOf(pre[c], Canon(pre[c], full_file[c], FALSE)) = "file"
        /\ KindOf(fs, Canon(pre[c], full_file[c], FALSE)) = "none"
        /\ result[c] = EIO

\* the content was absent, the record missing: the removal failed on its own
C13_WitnessMissingRecord ==
    \E c \in Calls :
        /\ IsTrashCall(c) /\ ~InDirBranch(c) /\ shred_res[c] = "Ok" /\ Returned(c)
        /\ IsRecordRemoval(Last(log[c])) /\ ~Last(log[c]).ok
        /\ KindOf(pre[c], Canon(pre[c], full_file[c], FALSE)) = "none"
        /\ result[c] = ENOENT

\* C14: Trash-Handle shred of a well-formed handle whose metadata record
\* exists and whose Content Location is absent issues no call on the content
\* but the two stat calls is_dir and is_file, and then the removal of the
\* record; when that removal has not failed, the call has returned Ok, the
\* record is gone and nothing else has changed.  Trash-Handle shred of a
\* handle at which no record exists never returns Ok, whether the Content
\* Location is a directory or not.
C14_MissingContentToleratedMissingRecordNot ==
    \A c \in Calls :
        IsTrashCall(c) =>
            LET h == target[c].path
                rec == Canon(pre[c], h, FALSE)
            IN
            /\ (/\ WellFormed(h) /\ KindOf(pre[c], rec) = "file"
                /\ ~exists(pre[c], ContentOf(h))) =>
                  /\ \A i \in DOMAIN log[c] :
                        \/ /\ log[c][i].op \in {"is_dir", "is_file"}
                           /\ log[c][i].path = ContentOf(h)
                        \/ IsRecordRemoval(log[c][i]) /\ i = 3
                  /\ (Returned(c) /\ Last(log[c]).ok) =>
                        /\ result[c] = "Ok"
                        /\ fs = [pre[c] EXCEPT ![rec] = NoNode]
                  /\ ~Returned(c) => fs = pre[c]
            /\ (KindOf(pre[c], rec) = "none" /\ Returned(c)) => result[c] # "Ok"

\* the content was absent and the record has been removed
C14_Witness ==
    \E c \in Calls :
        /\ IsTrashCall(c) /\ WellFormed(target[c].path) /\ Returned(c)
        /\ KindOf(pre[c], Canon(pre[c], target[c].path, FALSE)) = "file"
        /\ ~exists(pre[c], ContentOf(target[c].path))
        /\ result[c] = "Ok"
        /\ KindOf(fs, Canon(pre[c], target[c].path, FALSE)) = "none"

\* the record was missing and the content a directory: the call has failed
\* in the directory branch
C14_WitnessDirectory ==
    \E c \in Calls :
        /\ IsTrashCall(c) /\ InDirBranch(c) /\ Returned(c)
        /\ KindOf(pre[c], Canon(pre[c], target[c].path, FALSE)) = "none"
        /\ IsRecordRemoval(Last(log[c]))
        /\ result[c] = ENOENT

\* the record was missing and the content a file: the call has failed in the
\* file branch
C14_WitnessFile ==
    \E c \in Calls :
        /\ IsTrashCall(c) /\ ~InDirBranch(c) /\ Returned(c)
        /\ KindOf(pre[c], Canon(pre[c], target[c].path, FALSE)) = "none"
        /\ is_file(pre[c], full_file[c])
        /\ IsRecordRemoval(Last(log[c]))
        /\ result[c] = ENOENT

Chunks(L) == (L + buffer_size - 1) \div buffer_size

\* C16: when the overwrite loop has ended without a failed write (flush has
\* been issued), it has issued exactly ceil(L / 4096) write_all calls, L being
\* the length metadata returned, each of the whole 4096-byte zero buffer:
\* none for L = 0, and in all the least multiple of 4096 that is at least L.
\* In the loop, the next write goes to offset 4096 times the number of writes
\* done, the file is zero up to that offset and as before the call from it
\* on, and fewer than ceil(L / 4096) writes done means one more is issued.
C16_ExactlyCeilWrites ==
    \A c \in Calls :
        /\ \A i \in DOMAIN log[c] :
              log[c][i].op = "flush" =>
                  LET lg == log[c]
                      j == LastBefore(lg, i, "metadata")
                      L == lg[j].n
                      W == i - 1 - j
                  IN
                  /\ j >= 1
                  /\ \A k \in (j + 1)..(i - 1) :
                        lg[k].op = "write_all" /\ lg[k].ok /\ lg[k].n = buffer_size
                  /\ W = Chunks(L)
                  /\ L = 0 => W = 0
                  /\ W * buffer_size >= L /\ (W - 1) * buffer_size < L
                  /\ Written(lg, j, i) = W * buffer_size
        /\ pc[c] = "s_loop" =>
              LET lg == log[c]
                  j == LastBefore(lg, Len(lg) + 1, "metadata")
                  W == Len(lg) - j
                  old == pre[c][file[c]].data
                  new == fs[file[c]].data
              IN
              /\ file_size[c] = lg[j].n /\ file_size[c] = DataLen(old)
              /\ bytes_written[c] = W * buffer_size
              /\ W <= Chunks(file_size[c])
              /\ W < Chunks(file_size[c]) <=> LoopCond(c)
              /\ new = WriteAt(old, 0, Bytes(bytes_written[c], 0), bytes_written[c])

\* a file of exactly one buffer has been overwritten by one write
C16_Witness ==
    \E c \in Calls : \E i \in DOMAIN log[c] :
        /\ i > 2 /\ log[c][i].op = "flush" /\ log[c][i].ok
        /\ log[c][i - 1].op = "write_all"
        /\ log[c][i - 2].op = "metadata" /\ log[c][i - 2].n = buffer_size

\* an empty file: no write
C16_WitnessEmpty ==
    \E c \in Calls : \E i \in DOMAIN log[c] :
        /\ i > 1 /\ log[c][i].op = "flush" /\ log[c][i].ok
        /\ log[c][i - 1].op = "metadata" /\ log[c][i - 1].n = 0

\* the longest file, whole buffers and one byte: one write more than buffers
C16_WitnessLongest ==
    \E c \in Calls : \E i \in DOMAIN log[c] :
        /\ log[c][i].op = "flush" /\ log[c][i].ok
        /\ i > MaxChunks + 2
        /\ log[c][i - MaxChunks - 2].op = "metadata"
        /\ log[c][i - MaxChunks - 2].n = MaxChunks * buffer_size + 1

\* C17: for a handle R/D/N.E (at least two components, the last one a file
\* name whose last dot, at position k > 1, separates N from E), once the
\* paths are derived the Trash Root is R and full_file is R/files/N; every
\* call on the content names full_file, or in the directory branch a path
\* under full_file; the other calls are the removals of the record R/D/N.E.
C17_ContentLocationDerived ==
    \A c \in Calls :
        LET h == target[c].path
            nm == Last(h.comps)
            R == [abs |-> h.abs, comps |-> SubSeq(h.comps, 1, Len(h.comps) - 2)]
        IN
        (IsTrashCall(c) /\ Len(h.comps) >= 2 /\ nm # DotDot) =>
            \A k \in 2..Len(nm) :
                (nm[k] = "." /\ \A m \in (k + 1)..Len(nm) : nm[m] # ".") =>
                    LET loc == [abs |-> R.abs,
                                comps |-> R.comps \o <<nFiles, SubSeq(nm, 1, k - 1)>>]
                    IN
                    /\ trash_folder(c) = Some(R)
                    /\ pc[c] # "t_derive" => full_file[c] = loc
                    /\ \A i \in DOMAIN log[c] :
                          LET e == log[c][i] IN
                          IF IsRecordRemoval(e) THEN e.path = h
                          ELSE /\ e.path.abs = loc.abs
                               /\ Under(loc.comps, e.path.comps)
                               /\ ~InDirBranch(c) => e.path = loc

\* the handle /T/info/n.x.e: the file /T/files/n.x has been shredded, the
\* file /T/files/n has not been touched
C17_Witness ==
    \E c \in Calls :
        /\ IsTrashCall(c) /\ Returned(c) /\ result[c] = "Ok"
        /\ target[c].path = Abs(pRecNX)
        /\ full_file[c] = Abs(pNX)
        /\ KindOf(pre[c], pNX) = "file" /\ KindOf(fs, pNX) = "none"
        /\ KindOf(fs, pN) = "file" /\ fs[pN] = pre[c][pN]

\* the relative handle info/n.e: the Trash Root is the empty path and the
\* directory files/n has been walked
C17_WitnessRelative ==
    \E c \in Calls :
        /\ IsTrashCall(c) /\ Returned(c) /\ result[c] = "Ok" /\ InDirBranch(c)
        /\ target[c].path = Rel(<<nInfo, nRecN>>)
        /\ full_file[c] = Rel(<<nFiles, nN>>)

\* C18 (as claimed): Trash-Handle shred of a well-formed handle whose derived
\* Trash Root is not an existing directory never returns Ok.
C18_MissingTrashRootFails ==
    \A c \in Calls :
        (/\ IsTrashCall(c) /\ WellFormed(target[c].path)
         /\ ~is_dir(pre[c], trash_folder(c).v)
         /\ Returned(c)) =>
            result[c] # "Ok"

\* the changes Trash-Handle shred is said to be confined to: the record and
\* what is at or under the Content Location
InTrashedItem(c, q) ==
    \/ q = Canon(pre[c], target[c].path, FALSE)
    \/ Under(Canon(pre[c], ContentOf(target[c].path), FALSE), q)

\* C19 (as claimed): during and after Trash-Handle shred of a well-formed
\* handle, every file and directory other than the record and what is at or
\* under the Content Location is as it was before the call.
C19_OnlyTrashedItemChanges ==
    \A c \in Calls :
        (IsTrashCall(c) /\ WellFormed(target[c].path)) =>
            \A q \in Paths : ~InTrashedItem(c, q) => fs[q] = pre[c][q]

====
